---------------------------- MODULE Spec2Model ----------------------------
(***************************************************************************)
(* A model of gobjectify (src/gobjectify.ts, __property.ts,                *)
(* property_helpers.ts, __simple_action.ts), in independent parts that     *)
(* share one state:                                                        *)
(*   - the GClass registration of one class and the validating property    *)
(*     accessors of its instance;                                          *)
(*   - from, Signal and GClass over several classes;                       *)
(*   - the _init wrappers of a decorated class and of a class derived from *)
(*     it: accessor contract, action wiring, _ready scheduling;            *)
(*   - the Notify, Debounce decorators and the connect_async bridge.       *)
(* Each part has its own specification; its initial condition leaves the   *)
(* other parts idle.                                                       *)
(*                                                                         *)
(* Numbers are fixed-point: a value is the integer count of 1/Scale units, *)
(* so a value is a whole number iff it is a multiple of Scale.  The        *)
(* platform's integer widths are reduced to IntBits bits; the ordering of  *)
(* the range constants is the one of the platform.                         *)
(***************************************************************************)
EXTENDS Integers, Sequences, FiniteSets, TLC

VARIABLES
    \* ---- GClass / property accessors
    config,      \* what the program declares: from() descriptor, manual spec, accessor pair
    registered,  \* what GClass computed and submitted for the class
    inst,        \* the one instance: construction phase, backing field, installed accessor
    last_op,     \* the last operation on the instance and what it delivered
    \* ---- Debounce
    now,         \* the main loop's clock, in milliseconds
    deb_cfg,     \* per slot: the decorator's parameters (trigger, milliseconds)
    deb,         \* per slot: the three symbol-keyed fields on the instance
    sources,     \* the timeout sources alive in the main loop
    calls,       \* per slot: the calls of the debounced method so far
    invocations, \* per slot: the invocations of the wrapped method so far
    \* ---- connect_async
    handlers,    \* the signal handlers connected to the object, in connection order
    emits,       \* the emissions on the object so far
    bridges,     \* per connect_async call: its closure variables and its promise
    \* ---- from / Signal / GClass over several classes
    parent_of,   \* per declared class: Object.getPrototypeOf(class)
    metadata,    \* per class: the value under GOBJECTIFY_FROM_SYMBOL, if it has one
    signals_map, \* the signal side table: per class its accumulated signals, if any
    signal_log,  \* the Signal applications so far
    registry,    \* per class: what GClass submitted to GObject.registerClass
    thrown,      \* per class: the error that left its GClass decorator, if any
    \* ---- instances of decorated classes: accessor contract, actions, _ready
    life_cfg,    \* what the program declares: base class A, derived class B
    objects,     \* the instances constructed so far
    idle_sources,\* the idle sources pending in the main loop, in dispatch order
    promises,    \* the deferred results returned by _ready hooks
    printed,     \* what on_error printed
    uncaught,    \* exceptions that reached the main loop
    \* ---- Notify
    ntf_cfg,     \* the decorated setter: its name, and whether Notify wraps it
    ntf_events,  \* what happened on the instance, in order
    ntf_result,  \* how the last assignment ended for its caller
    \* ---- property factories
    factory_call \* the factory call the program wrote for the property, if any

propVars == <<config, registered, inst, last_op>>
debVars == <<now, deb_cfg, deb, sources, calls, invocations>>
asyncVars == <<handlers, emits, bridges>>
classVars == <<parent_of, metadata, signals_map, signal_log, registry, thrown>>
lifeVars == <<life_cfg, objects, idle_sources, promises, printed, uncaught>>
notifyVars == <<ntf_cfg, ntf_events, ntf_result>>
declVars == <<factory_call>>

vars == <<config, registered, inst, last_op,
          now, deb_cfg, deb, sources, calls, invocations,
          handlers, emits, bridges,
          parent_of, metadata, signals_map, signal_log, registry, thrown,
          life_cfg, objects, idle_sources, promises, printed, uncaught,
          ntf_cfg, ntf_events, ntf_result,
          factory_call>>

-----------------------------------------------------------------------------
(* Bounds of the model *)

Scale == 2      \* units per whole number (2: values are counted in halves)
IntBits == 3    \* width of the platform's 32-bit integers in the model

(* Optional values: <<>> is undefined, <<v>> is the value v *)
Undefined == <<>>
Some(v) == <<v>>
Nullish(o, d) == IF o = Undefined THEN d ELSE o[1]   \* o ?? d
Opt(S) == {Undefined} \cup {Some(x) : x \in S}

-----------------------------------------------------------------------------
(* Platform number constants *)

MAXINT32 == (2^(IntBits - 1) - 1) * Scale
MININT32 == (0 - 2^(IntBits - 1)) * Scale
MAXUINT32 == (2^IntBits - 1) * Scale
MAX_VALUE == (2^IntBits) * Scale      \* Number.MAX_VALUE: the largest finite number
MIN_VALUE == 1                        \* Number.MIN_VALUE: the smallest positive number

Values == (0 - MAX_VALUE)..MAX_VALUE

\* Math.trunc: drop the fractional part, toward zero
Trunc(x) == IF x >= 0 THEN (x \div Scale) * Scale
                      ELSE 0 - (((0 - x) \div Scale) * Scale)

-----------------------------------------------------------------------------
(* Flags *)

FlagStrings == {"CONSTANT", "READWRITE", "CONSTRUCT", "CONSTRUCT_ONLY"}

\* the presets with CONSTRUCT_ONLY left without the WRITABLE bit
FLAG_PRESETS_readonlyConstructOnly(flag_string) ==
    CASE flag_string = "CONSTANT" -> {"READABLE"}
      [] flag_string = "READWRITE" -> {"READABLE", "WRITABLE"}
      [] flag_string = "CONSTRUCT" -> {"READABLE", "WRITABLE", "CONSTRUCT"}
      [] flag_string = "CONSTRUCT_ONLY" -> {"READABLE", "CONSTRUCT_ONLY"}

\* GObject.ParamFlags as the set of bits that are set
FLAG_PRESETS(flag_string) ==
    CASE flag_string = "CONSTANT" -> {"READABLE"}
      [] flag_string = "READWRITE" -> {"READABLE", "WRITABLE"}
      [] flag_string = "CONSTRUCT" -> {"READABLE", "WRITABLE", "CONSTRUCT"}
      [] flag_string = "CONSTRUCT_ONLY" -> {"READABLE", "WRITABLE", "CONSTRUCT_ONLY"}

get_flags(flag_string) == FLAG_PRESETS(flag_string)

-----------------------------------------------------------------------------
(* Property descriptors: Property.int32 / uint32 / double / string *)

NumericKinds == {"int32", "uint32", "double"}
OtherKinds == {"string", "bool", "gobject", "genum", "jsobject"}

\* the GType a property factory builds its spec with
GTypeOf(kind) ==
    CASE kind = "int32" -> "TYPE_INT"
      [] kind = "uint32" -> "TYPE_UINT"
      [] kind = "double" -> "TYPE_DOUBLE"
      [] kind = "string" -> "TYPE_STRING"
      [] kind = "bool" -> "TYPE_BOOLEAN"
      [] kind = "gobject" -> "TYPE_OBJECT"
      [] kind = "genum" -> "TYPE_ENUM"
      [] kind = "jsobject" -> "TYPE_JSOBJECT"

num_sizes_and_spec(kind) ==
    CASE kind = "int32" -> [min |-> MININT32, max |-> MAXINT32]
      [] kind = "uint32" -> [min |-> 0, max |-> MAXUINT32]
      [] kind = "double" -> [min |-> 0 - MAX_VALUE, max |-> MAX_VALUE]

\* cfg: [kind, flags, min, max, default], the last four optional
primitive_property(cfg) ==
    LET flags == get_flags(Nullish(cfg.flags, "READWRITE"))
        range_and_spec == num_sizes_and_spec(cfg.kind)
        min == Nullish(cfg.min, range_and_spec.min)
        max == Nullish(cfg.max, range_and_spec.max)
        default_val == Nullish(cfg.default,
                               IF 0 >= min /\ 0 <= max THEN 0 ELSE min)
    IN  [kind |-> cfg.kind,
         min |-> Some(min),
         max |-> Some(max),
         flags |-> Nullish(cfg.flags, "READWRITE"),
         spec |-> [value_type |-> GTypeOf(cfg.kind),
                   flags |-> flags,
                   minimum |-> Some(min),
                   maximum |-> Some(max),
                   default_value |-> Some(default_val)]]

\* Property.string: no bounds, default ""  (the empty string is modelled as 0)
string_property(cfg) ==
    LET flags == get_flags(Nullish(cfg.flags, "READWRITE"))
    IN  [kind |-> cfg.kind,
         min |-> Undefined,
         max |-> Undefined,
         flags |-> Nullish(cfg.flags, "READWRITE"),
         spec |-> [value_type |-> GTypeOf(cfg.kind),
                   flags |-> flags,
                   minimum |-> Undefined,
                   maximum |-> Undefined,
                   default_value |-> Some(Nullish(cfg.default, 0))]]

\* Property.bool: no bounds, default false  (false is modelled as 0)
bool_property(cfg) ==
    [string_property(cfg) EXCEPT !.spec.default_value = Some(Nullish(cfg.default, 0))]

\* Property.genum: no bounds, default config.default ?? null
genum_property(cfg) ==
    [string_property(cfg) EXCEPT !.spec.default_value = cfg.default]

\* Property.gobject: no bounds, no default (get_default_value() is null)
gobject_property(cfg) ==
    [string_property(cfg) EXCEPT !.spec.default_value = Undefined]

\* Property.jsobject: no bounds, no default (get_default_value() is null)
jsobject_property(cfg) ==
    [string_property(cfg) EXCEPT !.spec.default_value = Undefined]

Property(cfg) ==
    CASE cfg.kind \in NumericKinds -> primitive_property(cfg)
      [] cfg.kind = "string" -> string_property(cfg)
      [] cfg.kind = "bool" -> bool_property(cfg)
      [] cfg.kind = "genum" -> genum_property(cfg)
      [] cfg.kind = "gobject" -> gobject_property(cfg)
      [] cfg.kind = "jsobject" -> jsobject_property(cfg)

\* descriptor.create(name): the platform spec the factory closes over
create(descriptor) == descriptor.spec


-----------------------------------------------------------------------------
(* The older Property(type, config), which builds its spec through          *)
(* PropertyHelpers when GClass calls create(name)                            *)

\* looseGet(value_type): the per-GType clamp range, Undefined for other GTypes
NUMERIC_GTYPE_DEFAULTS(value_type) ==
    CASE value_type = "TYPE_DOUBLE" -> Some([max |-> MAX_VALUE, min |-> MIN_VALUE])
      [] value_type = "TYPE_INT" -> Some([max |-> MAXINT32, min |-> MININT32])
      [] value_type = "TYPE_UINT" -> Some([max |-> MAXUINT32, min |-> 0])
      [] OTHER -> Undefined

\* clamp_to(input, { min, max })
clamp_to(input, range) ==
    IF input > range.max THEN range.max
    ELSE IF input < range.min THEN range.min
    ELSE input

string_to_flag(flag_string) == FLAG_PRESETS(flag_string)

\* PropertyHelpers.uint32 / int32 / double (name, options): all three take
\* their default range from the TYPE_UINT row; double does not truncate
PropertyHelpers(kind, options) ==
    LET default_nums == NUMERIC_GTYPE_DEFAULTS("TYPE_UINT")[1]
        trunc(x) == IF kind = "double" THEN x ELSE Trunc(x)
        min == trunc(Nullish(options.min, default_nums.min))
        max == trunc(Nullish(options.max, default_nums.max))
        default_val == clamp_to(trunc(Nullish(options.default, 0)),
                                [min |-> min, max |-> max])
    IN  [value_type |-> GTypeOf(kind),
         flags |-> string_to_flag(Nullish(options.flags, "READWRITE")),
         minimum |-> Some(min),
         maximum |-> Some(max),
         default_value |-> Some(default_val)]

\* PropertyHelpers.string(name, options)  (the empty string is modelled as 0)
PropertyHelpers_string(options) ==
    [value_type |-> GTypeOf("string"),
     flags |-> string_to_flag(Nullish(options.flags, "READWRITE")),
     minimum |-> Undefined,
     maximum |-> Undefined,
     default_value |-> Some(Nullish(options.default, 0))]

\* PropertyHelpers.resolve(name, type, config): the spec, or Undefined when it
\* throws "Unsupported property type"
resolve(type, cfg) ==
    CASE type = "string" -> Some(PropertyHelpers_string(cfg))
      [] type \in NumericKinds -> Some(PropertyHelpers(type, cfg))
      [] OTHER -> Undefined

\* get_min_max() of Property(type, config)
get_min_max(type, cfg) ==
    CASE type = "int32" -> [min |-> Some(Nullish(cfg.min, 0)),
                            max |-> Some(Nullish(cfg.max, MAXINT32))]
      [] type = "uint32" -> [min |-> Some(Nullish(cfg.min, 0)),
                             max |-> Some(Nullish(cfg.max, MAXUINT32))]
      [] type = "double" -> [min |-> Some(Nullish(cfg.min, 0)),
                             max |-> Some(Nullish(cfg.max, MAX_VALUE))]
      [] OTHER -> [min |-> Undefined, max |-> Undefined]

\* Property(type, config) for a type resolve supports: the descriptor, with the
\* spec its create(name) builds
Property_function(cfg) ==
    [kind |-> cfg.kind,
     min |-> get_min_max(cfg.kind, cfg).min,
     max |-> get_min_max(cfg.kind, cfg).max,
     flags |-> Nullish(cfg.flags, "READWRITE"),
     spec |-> resolve(cfg.kind, cfg)[1]]

-----------------------------------------------------------------------------
(* GClass: registration of the class, and the per-instance initializer *)

\* the accessor the class body declares for the property name
Accessors == {"pair", "getter", "setter", "none"}
HasGet(a) == a \in {"pair", "getter"}
HasSet(a) == a \in {"pair", "setter"}

\* The decorator body up to registerClass, for the one declared property name.
\* c is the declaration (config); the result is what the _init wrapper closes over
\* and what is submitted to the platform.
GClassResult(c) ==
    LET has_metadata == c.descriptor # Undefined
        from_spec == IF has_metadata THEN Some(create(c.descriptor[1])) ELSE Undefined
        \* spec.flags && READABLE && !(spec.flags & WRITABLE)
        const_getter == /\ has_metadata
                        /\ from_spec[1].flags # {}
                        /\ "WRITABLE" \notin from_spec[1].flags
    IN  [properties |-> IF c.manual # Undefined THEN c.manual ELSE from_spec,
         property_descriptors |-> c.descriptor,
         \* Object.defineProperty(prototype, name, { get }) on a name the class
         \* body declared an accessor for replaces the getter and keeps the
         \* setter the class declared
         proto_accessor |-> [get |-> IF const_getter THEN "const"
                                     ELSE IF HasGet(c.accessor) THEN "class"
                                     ELSE "none",
                             set |-> HasSet(c.accessor)],
         \* what the CONSTANT getter returns: spec.get_default_value() ?? null
         const_default |-> IF const_getter THEN from_spec[1].default_value
                                           ELSE Undefined]

\* set with the truncation done before the clamp
set_truncFirst(acc, val) ==
    IF acc.numeric
    THEN LET v0 == IF ~acc.is_double THEN Trunc(val) ELSE val
             v1 == IF v0 > acc.max THEN acc.max ELSE v0
             v2 == IF v1 < acc.min THEN acc.min ELSE v1
         IN  v2
    ELSE val

\* the validating setter built in the _init wrapper: what reaches desc.set
set(acc, val) ==
    IF acc.numeric
    THEN LET v1 == IF val > acc.max THEN acc.max ELSE val
             v2 == IF v1 < acc.min THEN acc.min ELSE v1
             v3 == IF ~acc.is_double THEN Trunc(v2) ELSE v2
         IN  v3
    ELSE val

\* desc.get that reads the backing field whatever getter the prototype has
desc_get_backing(r, stored) == stored

\* desc.get.call(instance): the getter found on the prototype, either the one
\* the class body declared (it returns the backing field) or the CONSTANT getter
desc_get(r, stored) == IF r.proto_accessor.get = "const" THEN r.const_default
                                                         ELSE stored

\* the wrapping getter: desc.get() ?? spec.get_default_value() ?? null
\* (null is Undefined)
get(r, stored) ==
    IF desc_get(r, stored) # Undefined THEN desc_get(r, stored)
                                       ELSE r.properties[1].default_value

\* the accessor the _init wrapper defines on the instance for spec / descriptor
MakeAccessor(r) ==
    LET spec == r.properties[1]
        maybe_default_nums == NUMERIC_GTYPE_DEFAULTS(spec.value_type)
        pd_min == IF r.property_descriptors = Undefined THEN Undefined
                  ELSE r.property_descriptors[1].min
        pd_max == IF r.property_descriptors = Undefined THEN Undefined
                  ELSE r.property_descriptors[1].max
    IN  IF maybe_default_nums # Undefined
        THEN [numeric |-> TRUE,
              min |-> Nullish(pd_min, maybe_default_nums[1].min),
              max |-> Nullish(pd_max, maybe_default_nums[1].max),
              is_double |-> spec.value_type = "TYPE_DOUBLE"]
        ELSE [numeric |-> FALSE, min |-> 0, max |-> 0, is_double |-> FALSE]

\* does the _init wrapper treat the property as writable and not construct-only
NeedsAccessor(r) ==
    /\ r.properties # Undefined
    /\ "WRITABLE" \in r.properties[1].flags
    /\ "CONSTRUCT_ONLY" \notin r.properties[1].flags

\* the accessor found on the prototype has both a getter and a setter
HasPair(r) == r.proto_accessor.get # "none" /\ r.proto_accessor.set

\* original_init.apply(this, args): the platform initializer hands a construct
\* value supplied for a writable property to the accessor the class has at that
\* moment (to the property's own storage when the class has none); the
\* validating accessor is defined on the instance only after it has returned.
original_init(r, arg) ==
    IF /\ arg # Undefined
       /\ "WRITABLE" \in r.properties[1].flags
       /\ (r.proto_accessor.set \/ r.proto_accessor.get = "none")
    THEN arg ELSE Undefined

\* the wrapped _init, for the construct argument arg (Undefined: not supplied)
init_wrapper(r, arg) ==
    LET stored == original_init(r, arg)
    IN  IF NeedsAccessor(r) /\ ~HasPair(r)
        THEN [phase |-> "failed", stored |-> stored, accessor |-> Undefined]
        ELSE [phase |-> "constructed",
              stored |-> stored,
              accessor |-> IF NeedsAccessor(r) THEN Some(MakeAccessor(r))
                                               ELSE Undefined]

NoOp == [op |-> "none", v |-> Undefined, out |-> Undefined]
NoInstance == [phase |-> "none", stored |-> Undefined, accessor |-> Undefined]

PropIdle ==
    /\ config = [descriptor |-> Undefined, manual |-> Undefined, accessor |-> "none"]
    /\ registered = Undefined
    /\ inst = NoInstance
    /\ last_op = NoOp

-----------------------------------------------------------------------------
(* from, Signal and GClass over several classes *)

ClassNames == {"A", "B"}      \* the classes the program declares and decorates
BaseNames == {"Base"}         \* the class a from() call returns
Platform == "GtkBox"          \* the GObject class being extended
Root == "Object"              \* the end of every prototype chain
AllClasses == ClassNames \cup BaseNames \cup {Platform}

MaxSignalCalls == 3           \* distinct Signal applications
SignalNames == {"clicked", "toggled"}
SignalProps == {"RUN_FIRST"}

\* member names are sequences of characters
Name_t == <<"t">>
Name_b == <<"_", "b", "_", "c">>
Name_a == <<"a">>
Name_e == <<"_", "e">>

Name_a_b == <<"a", "_", "b">>

\* the entries of a descriptor map: Property(type), Child(), SimpleAction()
PropertyEntry(name, type) == [name |-> name, kind |-> "property", type |-> type]
ChildEntry(name) == [name |-> name, kind |-> "child", type |-> ""]
ActionEntry(name) == [name |-> name, kind |-> "action", type |-> ""]

\* the descriptor maps passed to from(), as Object.entries lists them
Descriptors ==
    { <<>>,
      << PropertyEntry(Name_t, "int32"), ChildEntry(Name_b), ActionEntry(Name_a) >> }

\* descriptor maps with a property of a type resolve does not support, before
\* and after members it supports
TemplateDescriptors ==
    Descriptors \cup
    { << PropertyEntry(Name_t, "float") >>,
      << ChildEntry(Name_e), PropertyEntry(Name_a, "double"),
         PropertyEntry(Name_t, "float"), ActionEntry(Name_a_b) >> }

\* the options passed to GClass
ClassOptions ==
    { [manual_gtype_name |-> Undefined, manual_properties |-> {},
       manual_internal_children |-> <<>>],
      [manual_gtype_name |-> Some("Custom"), manual_properties |-> {Name_t},
       manual_internal_children |-> <<Name_e>>] }

\* options with children names that start with the separator, contain it, or
\* have none
TemplateOptions ==
    [manual_gtype_name : {Undefined}, manual_properties : {{}, {Name_t}},
     manual_internal_children : {<<>>, <<Name_e>>, <<Name_a_b, Name_b>>}]

ClassIdle ==
    /\ parent_of = [c \in AllClasses |-> IF c = Platform THEN Some(Root) ELSE Undefined]
    /\ metadata = [c \in AllClasses |-> Undefined]
    /\ signals_map = [c \in AllClasses |-> Undefined]
    /\ signal_log = {}
    /\ registry = [c \in AllClasses |-> Undefined]
    /\ thrown = [c \in AllClasses |-> Undefined]

\* the class declaration of c was evaluated; when its decorator threw, the
\* declaration did not complete and the class cannot be referred to
Declared(c) == parent_of[c] # Undefined /\ thrown[c] = Undefined

\* no class with instances is declared
NoLifeCfg == [capability |-> "object", has_metadata |-> FALSE,
              B_has_metadata |-> FALSE, flags |-> Undefined,
              accessor |-> "none", A_ready |-> FALSE, B_ready |-> FALSE]

LifeIdle ==
    /\ life_cfg = NoLifeCfg
    /\ objects = <<>>
    /\ idle_sources = <<>>
    /\ promises = {}
    /\ printed = {}
    /\ uncaught = {}

NotifyIdle ==
    /\ ntf_cfg = [name |-> <<>>, wrapped |-> FALSE]
    /\ ntf_events = <<>>
    /\ ntf_result = [status |-> "none", error |-> Undefined]

\* no factory call is recorded
DeclIdle == factory_call = Undefined

\* from(extend, descriptor): a fresh abstract class carrying the metadata
from(base, extend, descriptor) ==
    /\ parent_of[base] = Undefined
    /\ Declared(extend)
    /\ parent_of' = [parent_of EXCEPT ![base] = Some(extend)]
    /\ metadata' = [metadata EXCEPT ![base] =
                       Some([extend |-> extend, descriptor |-> descriptor])]
    /\ UNCHANGED <<signals_map, signal_log, registry, thrown>>
    /\ UNCHANGED <<propVars, debVars, asyncVars, lifeVars, notifyVars, declVars>>

\* class c extends parent { ... }
class_extends(c, parent) ==
    /\ parent_of[c] = Undefined
    /\ Declared(parent)
    /\ parent_of' = [parent_of EXCEPT ![c] = Some(parent)]
    /\ UNCHANGED <<metadata, signals_map, signal_log, registry, thrown>>
    /\ UNCHANGED <<propVars, debVars, asyncVars, lifeVars, notifyVars, declVars>>

\* a side table that keeps one signal record for all classes
signals_get_shared(sm, target) ==
    IF \A c \in DOMAIN sm : sm[c] = Undefined THEN Undefined
    ELSE Some(UNION { sm[c][1] : c \in { d \in DOMAIN sm : sm[d] # Undefined } })

\* signals_map.get(target): the side table is keyed by the class
signals_get(sm, target) == sm[target]

\* @Signal(name, props) applied to target
Signal(target, name, props) ==
    /\ Declared(target)
    /\ signal_log' = signal_log \cup {[target |-> target, name |-> name]}
    /\ Cardinality(signal_log') <= MaxSignalCalls
    /\ LET signals == Nullish(signals_get(signals_map, target), {})
       IN  signals_map' = [signals_map EXCEPT ![target] =
               Some({ e \in signals : e.name # name }
                      \cup {[name |-> name, props |-> Nullish(props, "{}")]})]
    /\ UNCHANGED <<parent_of, metadata, registry, thrown>>
    /\ UNCHANGED <<propVars, debVars, asyncVars, lifeVars, notifyVars, declVars>>

\* obj[GOBJECTIFY_FROM_SYMBOL]: the property is looked up along the chain
RECURSIVE symbol_lookup(_, _, _)
symbol_lookup(c, po, md) ==
    IF c \notin DOMAIN po THEN Undefined
    ELSE IF md[c] # Undefined THEN md[c]
    ELSE IF po[c] = Undefined THEN Undefined
    ELSE symbol_lookup(po[c][1], po, md)

\* name.replace("_", ""): the first underscore is removed
RECURSIVE replace(_)
replace(name) ==
    IF name = <<>> THEN <<>>
    ELSE IF Head(name) = "_" THEN Tail(name)
    ELSE <<Head(name)>> \o replace(Tail(name))

\* the names of the descriptor entries of one kind, in entry order
RECURSIVE names_of(_, _)
names_of(entries, kind) ==
    IF entries = <<>> THEN <<>>
    ELSE (IF Head(entries).kind = kind THEN <<Head(entries).name>> ELSE <<>>)
         \o names_of(Tail(entries), kind)

SeqRange(q) == { q[i] : i \in 1..Len(q) }

\* a decorator that skips the entries whose create(name) throws
spec_build_fails_never(entries) == FALSE

\* the loop over the descriptor entries: does value.create(name) throw for one
\* of the property entries (a config-less Property(type) of a type that
\* PropertyHelpers.resolve does not support)
spec_build_fails(entries) ==
    \E i \in 1..Len(entries) :
        /\ entries[i].kind = "property"
        /\ resolve(entries[i].type, [min |-> Undefined, max |-> Undefined,
                                     default |-> Undefined, flags |-> Undefined])
             = Undefined

\* @GClass(options) applied to target: what is submitted to registerClass, and
\* what the _init wrapper closes over; or the error that leaves the decorator
GClass_decorator(target, options) ==
    /\ Declared(target)
    /\ registry[target] = Undefined
    /\ LET parent == parent_of[target][1]
           maybe_metadata == symbol_lookup(parent, parent_of, metadata)
           has_base_metadata == maybe_metadata # Undefined
           entries == IF has_base_metadata THEN maybe_metadata[1].descriptor ELSE <<>>
           from_properties == SeqRange(names_of(entries, "property"))
           properties == [n \in from_properties \cup options.manual_properties |->
                            IF n \in options.manual_properties THEN "manual"
                                                               ELSE "descriptor"]
           children == names_of(entries, "child") \o options.manual_internal_children
           actions == SeqRange(names_of(entries, "action"))
       IN  IF spec_build_fails(entries)
           THEN \* the error of create(name) leaves the decorator inside the loop
                /\ thrown' = [thrown EXCEPT ![target] =
                                 Some("PropertyHelpers.resolve: Unsupported property type.")]
                /\ UNCHANGED <<registry, parent_of, signals_map>>
           ELSE /\ registry' = [registry EXCEPT ![target] =
                      Some([parent |-> parent,
                            GTypeName |-> Nullish(options.manual_gtype_name, target),
                            Properties |-> properties,
                            options |-> options,
                            children |-> children,
                            InternalChildren |->
                                [i \in 1..Len(children) |-> replace(children[i])],
                            Signals |-> Nullish(signals_get(signals_map, target), {}),
                            is_base_metadata |-> has_base_metadata,
                            actions |-> actions])]
                /\ parent_of' = IF has_base_metadata
                                THEN [parent_of EXCEPT
                                        ![target] = Some(maybe_metadata[1].extend)]
                                ELSE parent_of
                /\ signals_map' = [signals_map EXCEPT ![target] = Undefined]
                /\ thrown' = thrown
    /\ UNCHANGED <<metadata, signal_log>>
    /\ UNCHANGED <<propVars, debVars, asyncVars, lifeVars, notifyVars, declVars>>

-----------------------------------------------------------------------------
(* Instances of decorated classes: the _init wrappers of a base class A and   *)
(* of a class B derived from it, both decorated with GClass                   *)

MaxObjects == 2               \* instances constructed

Capabilities == {"application", "window", "widget", "object"}
PropKey == "p"                \* the one property the class A declares

\* the platform classes an instance of each capability is an instance of
InstanceOf(capability) ==
    CASE capability = "application" -> {"Gtk.Application"}
      [] capability = "window" -> {"Gtk.ApplicationWindow", "Gtk.Widget"}
      [] capability = "widget" -> {"Gtk.Widget"}
      [] capability = "object" -> {}

\* SimpleAction(params): the descriptor keeps the accelerators apart
SimpleAction(params) ==
    [args |-> params.args, accels |-> Nullish(params.accels, <<>>)]

\* the actions of the descriptor passed to from(), by member name
TemplateActions ==
    [name \in {"quit", "about"} |->
        IF name = "quit"
        THEN SimpleAction([args |-> "{}", accels |-> Some(<<"<Control>q">>)])
        ELSE SimpleAction([args |-> "{enabled: false}", accels |-> Undefined])]

\* the actions of the descriptor passed to from() for the derived class
DerivedActions ==
    [name \in {"open"} |-> SimpleAction([args |-> "{}", accels |-> Undefined])]

\* A extends from(platform class, descriptor) or the platform class itself;
\* B extends A
LifeConfigs ==
    [capability : Capabilities, has_metadata : BOOLEAN, B_has_metadata : {FALSE},
     flags : Opt(FlagStrings),
     accessor : {"pair", "none"}, A_ready : BOOLEAN, B_ready : BOOLEAN]

\* A as above, without properties; B extends A or from(A, descriptor)
ChainConfigs ==
    [capability : Capabilities, has_metadata : BOOLEAN, B_has_metadata : BOOLEAN,
     flags : {Undefined},
     accessor : {"none"}, A_ready : BOOLEAN, B_ready : {FALSE}]

\* is_base_metadata(maybe_metadata) in the decoration of target
is_base_metadata(target, cfg) ==
    \/ target = "A" /\ cfg.has_metadata
    \/ target = "B" /\ cfg.B_has_metadata

\* the actions map the decoration of target collected
actions_of(target, cfg) ==
    IF ~is_base_metadata(target, cfg) THEN <<>>
    ELSE IF target = "A" THEN TemplateActions
    ELSE DerivedActions

\* target.prototype._ready: the class's own method, else the inherited one
ready_method(target, cfg) ==
    CASE target = "A" -> IF cfg.A_ready THEN Some("A") ELSE Undefined
      [] target = "B" -> IF cfg.B_ready THEN Some("B")
                         ELSE IF cfg.A_ready THEN Some("A") ELSE Undefined

\* the properties record the wrapper of target closes over: key -> flags
properties_of(target, cfg) ==
    IF target = "A" /\ cfg.flags # Undefined
    THEN {[key |-> PropKey, flags |-> FLAG_PRESETS(cfg.flags[1])]}
    ELSE {}

\* Object.getOwnPropertyDescriptor(Object.getPrototypeOf(this), key)
\*   ?? Object.getOwnPropertyDescriptor(this, key)
\* the accessor is declared in the body of A; neither B's prototype nor the
\* instance has a property of that name of its own
own_descriptor(this_class, key, cfg) ==
    IF this_class = "A" THEN cfg.accessor ELSE "none"

\* the message of the error the wrapper throws, as the pieces it is built from
accessor_error(key, target_name) ==
    <<"GClass:\nWriteable custom GObject property '", key,
      "' on GClass decorated class '", target_name,
      "' is not configured with a getter or a setter function.">>

\* accelerators are set for every window as well
accel_setter_always(capability) == TRUE

\* is accel_setter defined: only in the Gtk.Application branch
accel_setter(capability) ==
    /\ "Gtk.ApplicationWindow" \notin InstanceOf(capability)
    /\ "Gtk.Application" \in InstanceOf(capability)

\* action_addable: the instance itself, its private action group, or undefined
action_addable(capability) ==
    IF "Gtk.ApplicationWindow" \in InstanceOf(capability) THEN Some("this")
    ELSE IF "Gtk.Application" \in InstanceOf(capability) THEN Some("this")
    ELSE IF "Gtk.Widget" \in InstanceOf(capability) THEN Some("group")
    ELSE Undefined

\* a lookup that makes a new group every time
action_group_new(o) == Cardinality(o.groups) + 1

\* (this[ACTION_GROUP_SYMBOL] ??= new Gio.SimpleActionGroup()): the group the
\* instance already has, else a new one (groups are numbered as created)
action_group_lookup(o) ==
    IF o.action_group # Undefined THEN o.action_group[1]
                                  ELSE Cardinality(o.groups) + 1

\* the Gtk.Widget branch: look the group up, remember it on the instance and
\* insert it under the name of the class being initialised
use_group(target, o) ==
    LET group == action_group_lookup(o)
    IN  [o EXCEPT !.action_group = Some(group),
                  !.groups = @ \cup {group},
                  !.inserted = { e \in @ : e.name # target }
                                 \cup {[name |-> target, group |-> group]},
                  !.group_name = Some(target)]

\* the action wiring of the wrapper of target on the instance o
wire_actions(target, o, cfg) ==
    LET actions == actions_of(target, cfg)
        names == DOMAIN actions
        addable == action_addable(cfg.capability)
        via_group == addable = Some("group")
        o1 == IF via_group THEN use_group(target, o) ELSE o
    IN  IF ~is_base_metadata(target, cfg) THEN o
        ELSE IF addable = Undefined
             THEN o
             ELSE [o1 EXCEPT
                     !.container = addable,
                     !.added = @ \cup { [name |-> n, args |-> actions[n].args] :
                                          n \in names },
                     !.group_added = IF via_group
                                     THEN @ \cup { [group |-> o1.action_group[1],
                                                    name |-> n] : n \in names }
                                     ELSE @,
                     !.accels = IF accel_setter(cfg.capability)
                                THEN @ \cup { [detailed_action_name |-> <<"app.", n>>,
                                               accels |-> actions[n].accels] :
                                               n \in names }
                                ELSE @,
                     !.bound = @ \cup names]

\* GLib.idle_add(...) when target.prototype._ready is a function
schedule(target, o, cfg) ==
    IF ready_method(target, cfg) # Undefined
    THEN [o EXCEPT !.scheduled = Append(@, [ready |-> ready_method(target, cfg)[1],
                                            target |-> target])]
    ELSE o

\* prototype._init of target applied to the instance o; for B original_init is
\* the wrapper A's decoration left on A.prototype
RECURSIVE wrapper(_, _, _)
wrapper(target, o, cfg) ==
    LET o1 == IF target = "B" THEN wrapper("A", o, cfg) ELSE o
        missing == { p \in properties_of(target, cfg) :
                       /\ "WRITABLE" \in p.flags
                       /\ "CONSTRUCT_ONLY" \notin p.flags
                       /\ LET desc == own_descriptor(o.class, p.key, cfg)
                          IN  ~(HasGet(desc) /\ HasSet(desc)) }
    IN  IF o1.phase = "failed" THEN o1
        ELSE IF missing # {}
        THEN [o1 EXCEPT !.phase = "failed",
                        !.error = accessor_error((CHOOSE p \in missing : TRUE).key,
                                                 target)]
        ELSE schedule(target, wire_actions(target, o1, cfg), cfg)

NewObject(class) ==
    [class |-> class, phase |-> "constructed", error |-> <<>>,
     container |-> Undefined, group_name |-> Undefined, added |-> {}, accels |-> {},
     action_group |-> Undefined, groups |-> {}, inserted |-> {}, group_added |-> {},
     bound |-> {}, scheduled |-> <<>>, ready_calls |-> <<>>]

\* new A() or new B()
construct(class) ==
    /\ Len(objects) < MaxObjects
    /\ LET o == wrapper(class, NewObject(class), life_cfg)
           id == Len(objects) + 1
       IN  /\ objects' = Append(objects, o)
           /\ idle_sources' = idle_sources \o
                 [i \in 1..Len(o.scheduled) |->
                    [obj |-> id, ready |-> o.scheduled[i].ready,
                     target |-> o.scheduled[i].target]]
    /\ UNCHANGED <<life_cfg, promises, printed, uncaught>>
    /\ UNCHANGED <<propVars, debVars, asyncVars, classVars, notifyVars, declVars>>

\* the failure is dropped without a trace
on_error_silent(log, target_name, e) == log

\* on_error: print(`Error in $ready function for ${target.name}`); print(e)
on_error(log, target_name, e) == log \cup {[class |-> target_name, error |-> e]}

ReadyOutcomes == {"returns", "throws", "promise"}

\* the main loop dispatches the first idle source: the callback of idle_add
idle_callback(outcome) ==
    /\ idle_sources # <<>>
    /\ LET src == Head(idle_sources)
           call == Len(objects[src.obj].ready_calls) + 1
       IN  /\ objects' = [objects EXCEPT ![src.obj].ready_calls =
                             Append(@, [ready |-> src.ready, target |-> src.target,
                                        outcome |-> outcome])]
           /\ printed' = IF outcome = "throws"
                         THEN on_error(printed, src.target, <<"error", src.obj, call>>)
                         ELSE printed
           /\ promises' = IF outcome = "promise"
                          THEN promises \cup {[obj |-> src.obj, call |-> call,
                                               target |-> src.target,
                                               state |-> "pending"]}
                          ELSE promises
    \* return GLib.SOURCE_REMOVE
    /\ idle_sources' = Tail(idle_sources)
    /\ UNCHANGED <<life_cfg, uncaught>>
    /\ UNCHANGED <<propVars, debVars, asyncVars, classVars, notifyVars, declVars>>

\* the deferred result a hook returned is rejected; return_val.catch(on_error)
promise_rejects(pr) ==
    /\ pr \in promises
    /\ pr.state = "pending"
    /\ promises' = (promises \ {pr}) \cup {[pr EXCEPT !.state = "rejected"]}
    /\ printed' = on_error(printed, pr.target, <<"rejection", pr.obj, pr.call>>)
    /\ UNCHANGED <<life_cfg, objects, idle_sources, uncaught>>
    /\ UNCHANGED <<propVars, debVars, asyncVars, classVars, notifyVars, declVars>>

-----------------------------------------------------------------------------
(* Notify *)

MaxAssignments == 3           \* assignments to the decorated setter

\* setter names, as sequences of characters
SetterNames == { <<"a", "_", "b", "_", "c">>, <<"x">>, <<"_", "p">> }
WrittenValues == {"v1", "v2"}

\* replace("_", "-"): only the first underscore becomes a hyphen
RECURSIVE replaceFirst(_)
replaceFirst(field_name) ==
    IF field_name = <<>> THEN <<>>
    ELSE IF Head(field_name) = "_" THEN <<"-">> \o Tail(field_name)
    ELSE <<Head(field_name)>> \o replaceFirst(Tail(field_name))

\* field_name.replaceAll("_", "-")
replaceAll(field_name) ==
    [i \in 1..Len(field_name) |-> IF field_name[i] = "_" THEN "-" ELSE field_name[i]]

\* the function Notify returns, applied to arg0; throws: the original setter
\* throws.  The result is the events on the instance and what the caller sees.
notify_wrapper(field_name, arg0, throws) ==
    LET canonical_name == replaceAll(field_name)
        called == [kind |-> "setter", arg |-> arg0, name |-> <<>>, threw |-> throws]
    IN  IF throws
        THEN [events |-> <<called>>,
              result |-> [status |-> "threw", error |-> Some(<<"error of", arg0>>)]]
        ELSE [events |-> <<called, [kind |-> "notify", arg |-> "", name |-> canonical_name,
                                    threw |-> FALSE]>>,
              result |-> [status |-> "returned", error |-> Undefined]]

\* the undecorated setter
plain_setter(arg0, throws) ==
    [events |-> <<[kind |-> "setter", arg |-> arg0, name |-> <<>>, threw |-> throws]>>,
     result |-> IF throws THEN [status |-> "threw", error |-> Some(<<"error of", arg0>>)]
                          ELSE [status |-> "returned", error |-> Undefined]]

\* instance.<name> = arg0
assign(arg0, throws) ==
    /\ Cardinality({ i \in 1..Len(ntf_events) : ntf_events[i].kind = "setter" })
         < MaxAssignments
    /\ LET r == IF ntf_cfg.wrapped THEN notify_wrapper(ntf_cfg.name, arg0, throws)
                                   ELSE plain_setter(arg0, throws)
       IN  /\ ntf_events' = ntf_events \o r.events
           /\ ntf_result' = r.result
    /\ UNCHANGED ntf_cfg
    /\ UNCHANGED <<propVars, debVars, asyncVars, classVars, lifeVars, declVars>>

-----------------------------------------------------------------------------
(* connect_async *)

MaxEmits == 3          \* emissions on the object

Bridges == {"b1", "b2"}           \* calls of connect_async on the one object
Signals == {"done", "failed"}     \* the signals of the object
EmitArgs == {<<"42">>, <<"x", "y">>}

NoBridge == [called |-> FALSE, resolve_signal |-> "", reject_signal |-> Undefined,
             resolve_id |-> Undefined, reject_id |-> Undefined, since |-> 0,
             status |-> "pending", value |-> <<>>,
             handler_runs |-> 0, settle_calls |-> 0, live_at_settle |-> {}]

AsyncIdle ==
    /\ handlers = <<>>
    /\ emits = <<>>
    /\ bridges = [b \in Bridges |-> NoBridge]

\* `${args}`: the array's elements joined by ","
RECURSIVE join(_)
join(args) ==
    IF Len(args) = 0 THEN <<>>
    ELSE IF Len(args) = 1 THEN <<args[1]>>
    ELSE <<args[1], ",">> \o join(Tail(args))

\* the text of the rejection error, as the pieces of the template literal
rejection_message(reject_signal, args) ==
    <<"Rejection signal: '", reject_signal, "' triggered with args: ">> \o join(args)

\* the emitting object kept among the arguments
handler_args_keepObj(params) == params

\* (_obj, ...args): a handler receives the emitting object first
handler_args(params) == Tail(params)

\* obj.disconnect(id)
disconnect(hs, id) == SelectSeq(hs, LAMBDA h : h.id # id)

\* cleanup that forgets the reject handler
cleanup_resolveOnly(st, b) ==
    LET br == st.bridges[b]
    IN  [st EXCEPT !.handlers =
           IF br.resolve_id # Undefined THEN disconnect(st.handlers, br.resolve_id[1])
                                        ELSE st.handlers]

\* cleanup() of bridge b; st is [handlers, bridges]
cleanup(st, b) ==
    LET br == st.bridges[b]
        h1 == IF br.resolve_id # Undefined THEN disconnect(st.handlers, br.resolve_id[1])
                                           ELSE st.handlers
        h2 == IF br.reject_id # Undefined THEN disconnect(h1, br.reject_id[1])
                                          ELSE h1
    IN  [st EXCEPT !.handlers = h2]

\* resolve(value) / reject(value) of bridge b's promise: only the first call settles
settle(st, b, status, value) ==
    LET br == st.bridges[b]
        live == { st.handlers[i].role :
                    i \in { k \in 1..Len(st.handlers) : st.handlers[k].bridge = b } }
        settled == IF br.status = "pending"
                   THEN [br EXCEPT !.status = status, !.value = value]
                   ELSE br
    IN  [st EXCEPT !.bridges[b] =
           [settled EXCEPT !.settle_calls = @ + 1, !.live_at_settle = live]]

\* the handler connected to resolve_signal
resolve_handler(st, b, params) ==
    settle(cleanup(st, b), b, "fulfilled", handler_args(params))

\* the reject handler rejecting before it cleans up
reject_handler_lateCleanup(st, b, params) ==
    cleanup(settle(st, b, "rejected",
                   rejection_message(st.bridges[b].reject_signal[1], handler_args(params))),
            b)

\* the handler connected to reject_signal
reject_handler(st, b, params) ==
    settle(cleanup(st, b), b, "rejected",
           rejection_message(st.bridges[b].reject_signal[1], handler_args(params)))

run_handler(st, h, params) ==
    LET counted == [st EXCEPT !.bridges[h.bridge].handler_runs = @ + 1]
    IN  IF h.role = "resolve" THEN resolve_handler(counted, h.bridge, params)
                              ELSE reject_handler(counted, h.bridge, params)

\* an emission runs the handlers connected when it starts, in connection order,
\* skipping those disconnected in the meantime
RECURSIVE dispatch(_, _, _)
dispatch(todo, st, params) ==
    IF todo = <<>> THEN st
    ELSE LET h == Head(todo)
             connected == \E i \in 1..Len(st.handlers) : st.handlers[i].id = h.id
         IN  dispatch(Tail(todo),
                      IF connected THEN run_handler(st, h, params) ELSE st,
                      params)

NextId ==
    LET ids == UNION { {x[1] : x \in {bridges[b].resolve_id, bridges[b].reject_id}
                                     \ {Undefined}} : b \in Bridges }
    IN  IF ids = {} THEN 1 ELSE 1 + CHOOSE m \in ids : \A n \in ids : n <= m

\* connect_async(obj, resolve_signal, reject_signal): the promise executor
connect_async(b, resolve_signal, reject_signal) ==
    LET resolve_id == NextId
        h1 == Append(handlers, [id |-> resolve_id, signal |-> resolve_signal,
                                bridge |-> b, role |-> "resolve"])
        \* if (!reject_signal) return
        no_reject == reject_signal = Undefined \/ reject_signal = Some("")
        h2 == IF no_reject THEN h1
              ELSE Append(h1, [id |-> resolve_id + 1, signal |-> reject_signal[1],
                               bridge |-> b, role |-> "reject"])
    IN  /\ ~bridges[b].called
        /\ handlers' = h2
        /\ bridges' = [bridges EXCEPT ![b] =
                         [NoBridge EXCEPT !.called = TRUE,
                                          !.resolve_signal = resolve_signal,
                                          !.reject_signal = reject_signal,
                                          !.resolve_id = Some(resolve_id),
                                          !.reject_id = IF no_reject THEN Undefined
                                                        ELSE Some(resolve_id + 1),
                                          !.since = Len(emits)]]
        /\ UNCHANGED <<emits, propVars, debVars, classVars, lifeVars, notifyVars, declVars>>

\* obj.emit(signal, ...args)
emit(signal, args) ==
    LET todo == SelectSeq(handlers, LAMBDA h : h.signal = signal)
        st == dispatch(todo, [handlers |-> handlers, bridges |-> bridges],
                       <<"obj">> \o args)
    IN  /\ Len(emits) < MaxEmits
        /\ emits' = Append(emits, [signal |-> signal, args |-> args])
        /\ handlers' = st.handlers
        /\ bridges' = st.bridges
        /\ UNCHANGED <<propVars, debVars, classVars, lifeVars, notifyVars, declVars>>

-----------------------------------------------------------------------------
(* Debounce *)

MaxTime == 5          \* the clock stops here
MaxCalls == 3         \* calls of one debounced method
MaxMilliseconds == 2  \* largest debounce interval

MaxSlotCalls == 2     \* calls of all debounced methods together

\* a decorated method is a method name in a class body; a slot is a decorated
\* method on an instance.  Class B extends A and overrides m, both decorated:
\* i1 is a B and carries both methods, i2 is an A.
Instances == {"i1", "i2"}
Methods == {[class |-> "A", name |-> "m"], [class |-> "B", name |-> "m"]}
AllSlots == { s \in [instance : Instances, method : Methods] :
                s.instance = "i1" \/ s.method.class = "A" }
Slots == {[instance |-> "i1", method |-> [class |-> "A", name |-> "m"]]}

\* the fields kept under symbols taken from a registry shared by description
field_key_by_description(s) == <<s.instance, s.method.name>>

\* this[timeout_symbol], this[last_args_symbol], this[should_call_trailing_symbol]:
\* the symbols are created once per decorated method, the fields live on the
\* instance
field_key(s) == <<s.instance, s.method>>

\* the fields of the instances the slots of S are on
FieldKeys(S) == { field_key(s) : s \in S }
Triggers == {"leading", "trailing", "leading+trailing"}
ArgVals == {"x", "y"} \* the arguments of a call
NoArgs == "[]"        \* the empty argument list

\* every trigger counted as a leading one
leading_always(trigger) == trigger \in Triggers

\* params.trigger.includes("leading")
leading(trigger) == trigger \in {"leading", "leading+trailing"}

\* every trigger counted as a trailing one
trailing_always(trigger) == trigger \in Triggers

\* params.trigger.includes("trailing")
trailing(trigger) == trigger \in {"trailing", "leading+trailing"}

FreshSlot == [timeout |-> Undefined, last_args |-> Undefined,
              should_call_trailing |-> FALSE]

\* a source_remove that cancels nothing
source_remove_nothing(srcs, id) == srcs

\* GLib.source_remove(id)
source_remove(srcs, id) == { src \in srcs : src.id # id }

\* GLib.timeout_add(priority, milliseconds, callback)
timeout_add(srcs, id, slot, milliseconds) ==
    srcs \cup {[id |-> id, slot |-> slot, due |-> now + milliseconds]}

\* a source whose time has come is dispatched before the clock moves on, and
\* before the program's next call
Due == { src \in sources : src.due <= now }

DebIdle ==
    /\ now = 0
    /\ deb_cfg = [s \in Slots |-> [trigger |-> "trailing", milliseconds |-> 1]]
    /\ deb = [k \in FieldKeys(Slots) |-> FreshSlot]
    /\ sources = {}
    /\ calls = [s \in Slots |-> <<>>]
    /\ invocations = [s \in Slots |-> <<>>]

\* the id GLib gives the next source: ids are never reused while the program
\* runs, one source is added per completed call
RECURSIVE CallsOf(_)
CallsOf(S) ==
    IF S = {} THEN 0
    ELSE LET s == CHOOSE x \in S : TRUE
         IN  Len(calls[s]) + CallsOf(S \ {s})

NextSourceId == CallsOf(DOMAIN calls) + 1

\* the else branch of debounced: remember the arguments for the trailing call
stash(st, args) ==
    [st EXCEPT !.last_args = Some(args), !.should_call_trailing = TRUE]

\* debounced.apply(instance, args); throws: original_method throws when invoked
debounced(s, args, throws) ==
    LET st == deb[field_key(s)]
        cfg == deb_cfg[s]
        has_scheduled == st.timeout # Undefined
        invoke == leading(cfg.trigger) /\ ~has_scheduled
        call == [t |-> now, args |-> args,
                 timer_live |-> \E src \in sources : src.slot = s]
        id == NextSourceId
    IN  /\ Len(calls[s]) < MaxCalls
        /\ Due = {}
        /\ throws => invoke
        /\ calls' = [calls EXCEPT ![s] = Append(@, call)]
        /\ invocations' =
             IF invoke
             THEN [invocations EXCEPT ![s] =
                     Append(@, [t |-> now, args |-> args, at |-> "call",
                                threw |-> throws])]
             ELSE invocations
        /\ IF invoke /\ throws
           THEN \* the exception leaves debounced before any timer is touched
                UNCHANGED <<deb, sources>>
           ELSE LET st1 == IF invoke THEN st ELSE stash(st, args)
                    removed == IF st1.timeout # Undefined
                               THEN source_remove(sources, st1.timeout[1])
                               ELSE sources
                IN  /\ sources' = timeout_add(removed, id, s, cfg.milliseconds)
                    /\ deb' = [deb EXCEPT ![field_key(s)] =
                                  [st1 EXCEPT !.timeout = Some(id)]]
        /\ UNCHANGED <<now, deb_cfg, propVars, asyncVars, classVars, lifeVars, notifyVars, declVars>>

\* the timeout callback of source src; throws: original_method throws when invoked
timeout_callback(src, throws) ==
    LET s == src.slot
        st0 == [deb[field_key(s)] EXCEPT !.timeout = Undefined]
        invoke == trailing(deb_cfg[s].trigger) /\ st0.should_call_trailing
    IN  /\ src \in Due
        /\ throws => invoke
        /\ invocations' =
             IF invoke
             THEN [invocations EXCEPT ![s] =
                     Append(@, [t |-> now, args |-> Nullish(st0.last_args, NoArgs),
                                at |-> "timer", threw |-> throws])]
             ELSE invocations
        \* an exception skips the reset of the flag
        /\ deb' = [deb EXCEPT ![field_key(s)] =
                     IF invoke /\ ~throws
                     THEN [st0 EXCEPT !.should_call_trailing = FALSE]
                     ELSE st0]
        \* SOURCE_REMOVE, or the exception: the source is destroyed either way
        /\ sources' = sources \ {src}
        /\ UNCHANGED <<now, deb_cfg, calls, propVars, asyncVars, classVars, lifeVars, notifyVars, declVars>>

\* one millisecond passes
Tick ==
    /\ now < MaxTime
    /\ Due = {}
    /\ now' = now + 1
    /\ UNCHANGED <<deb_cfg, deb, sources, calls, invocations, propVars, asyncVars, classVars, lifeVars, notifyVars, declVars>>

DebInit ==
    /\ now = 0
    /\ deb_cfg \in [Slots -> [trigger : Triggers, milliseconds : 1..MaxMilliseconds]]
    /\ deb = [k \in FieldKeys(Slots) |-> FreshSlot]
    /\ sources = {}
    /\ calls = [s \in Slots |-> <<>>]
    /\ invocations = [s \in Slots |-> <<>>]
    /\ PropIdle
    /\ AsyncIdle
    /\ ClassIdle
    /\ LifeIdle
    /\ NotifyIdle
    /\ DeclIdle

-----------------------------------------------------------------------------
(* Declarations the model explores *)

ExplicitMins == {-3, 1, 4}
ExplicitMaxs == {3, 5 * Scale}
ExplicitDefaults == {Scale}

PropertyConfigs ==
    [kind : NumericKinds, flags : Opt(FlagStrings), min : Opt(ExplicitMins),
     max : Opt(ExplicitMaxs), default : Opt(ExplicitDefaults)]
    \cup
    [kind : {"string"}, flags : Opt(FlagStrings), min : {Undefined},
     max : {Undefined}, default : Opt(ExplicitDefaults)]

\* the values the program passes for the property in the constructor arguments:
\* the extremes, zero, and fractional and whole values around zero
ConstructArgs == {0 - MAX_VALUE, 0 - Scale - 1, 0 - 1, 0, 1, Scale + 1, MAX_VALUE}

\* specs the program builds by hand for options.manual_properties
ManualSpecs ==
    { [value_type |-> GTypeOf(k), flags |-> get_flags("READWRITE"),
       minimum |-> Some(num_sizes_and_spec(k).min),
       maximum |-> Some(num_sizes_and_spec(k).max),
       default_value |-> Some(0)] : k \in {"int32", "double"} }

PropInit ==
    /\ config \in { c \in [descriptor : Opt({Property(p) : p \in PropertyConfigs}),
                           manual : Opt(ManualSpecs),
                           accessor : {"pair", "none"}] :
                      c.descriptor # Undefined \/ c.manual # Undefined }
    /\ registered = Undefined
    /\ inst = NoInstance
    /\ last_op = NoOp
    /\ DebIdle
    /\ AsyncIdle
    /\ ClassIdle
    /\ LifeIdle
    /\ NotifyIdle
    /\ DeclIdle

\* @GClass(options) applied to the class
GClass ==
    /\ registered = Undefined
    /\ registered' = Some(GClassResult(config))
    /\ UNCHANGED <<config, inst, last_op>>
    /\ UNCHANGED <<debVars, asyncVars, classVars, lifeVars, notifyVars, declVars>>

\* new Class({ p: arg }) or new Class({})
Construct(arg) ==
    /\ registered # Undefined
    /\ inst.phase = "none"
    /\ inst' = init_wrapper(registered[1], arg)
    /\ last_op' = [op |-> "construct", v |-> arg, out |-> inst'.stored]
    /\ UNCHANGED <<config, registered>>
    /\ UNCHANGED <<debVars, asyncVars, classVars, lifeVars, notifyVars, declVars>>

\* instance.p = v, through the accessor the _init wrapper installed
AccessorSet(v) ==
    /\ inst.phase = "constructed"
    /\ inst.accessor # Undefined
    /\ LET delivered == set(inst.accessor[1], v)
       IN  /\ inst' = [inst EXCEPT !.stored = Some(delivered)]
           /\ last_op' = [op |-> "set", v |-> Some(v), out |-> Some(delivered)]
    /\ UNCHANGED <<config, registered>>
    /\ UNCHANGED <<debVars, asyncVars, classVars, lifeVars, notifyVars, declVars>>

\* instance.p, through the accessor the _init wrapper installed
AccessorGet ==
    /\ inst.phase = "constructed"
    /\ inst.accessor # Undefined
    /\ last_op' = [op |-> "get", v |-> Undefined,
                   out |-> get(registered[1], inst.stored)]
    /\ UNCHANGED <<config, registered, inst>>
    /\ UNCHANGED <<debVars, asyncVars, classVars, lifeVars, notifyVars, declVars>>

PropNext ==
    \/ GClass
    \/ \E arg \in Opt(ConstructArgs) : Construct(arg)
    \/ \E v \in Values : AccessorSet(v)
    \/ AccessorGet

SpecProp == PropInit /\ [][PropNext]_vars

\* one declaration per property factory and flag value, without explicit bounds
FlagConfigs ==
    [kind : NumericKinds \cup {"string", "bool", "genum"}, flags : Opt(FlagStrings),
     min : {Undefined}, max : {Undefined}, default : Opt(ExplicitDefaults)]
    \cup
    [kind : {"gobject", "jsobject"}, flags : Opt(FlagStrings),
     min : {Undefined}, max : {Undefined}, default : {Undefined}]

FlagInit ==
    /\ config \in { c \in [descriptor : {Some(Property(p)) : p \in FlagConfigs},
                           manual : Opt(ManualSpecs),
                           accessor : Accessors] : TRUE }
    /\ registered = Undefined
    /\ inst = NoInstance
    /\ last_op = NoOp
    /\ DebIdle
    /\ AsyncIdle
    /\ ClassIdle
    /\ LifeIdle
    /\ NotifyIdle
    /\ DeclIdle

\* instance.p = v on an instance the _init wrapper defined no accessor on: the
\* assignment reaches the accessor found on the prototype
ClassSet(v) ==
    /\ inst.phase = "constructed"
    /\ inst.accessor = Undefined
    /\ registered[1].proto_accessor.get # "none" \/ registered[1].proto_accessor.set
    /\ IF registered[1].proto_accessor.set
       THEN \* the setter the class body declared stores the value as it is
            /\ inst' = [inst EXCEPT !.stored = Some(v)]
            /\ last_op' = [op |-> "class_set", v |-> Some(v), out |-> Some(v)]
       ELSE \* a getter without a setter: the assignment throws a TypeError
            /\ inst' = inst
            /\ last_op' = [op |-> "class_set_failed", v |-> Some(v), out |-> Undefined]
    /\ UNCHANGED <<config, registered>>
    /\ UNCHANGED <<debVars, asyncVars, classVars, lifeVars, notifyVars, declVars>>

\* instance.p on an instance the _init wrapper defined no accessor on
ClassGet ==
    /\ inst.phase = "constructed"
    /\ inst.accessor = Undefined
    /\ registered[1].proto_accessor.get # "none"
    /\ last_op' = [op |-> "get", v |-> Undefined,
                   out |-> desc_get(registered[1], inst.stored)]
    /\ UNCHANGED <<config, registered, inst>>
    /\ UNCHANGED <<debVars, asyncVars, classVars, lifeVars, notifyVars, declVars>>

FlagNext ==
    \/ GClass
    \/ \E arg \in Opt(ConstructArgs) : Construct(arg)
    \/ \E v \in Values : AccessorSet(v)
    \/ AccessorGet
    \/ \E v \in Values : ClassSet(v)
    \/ ClassGet

SpecFlags == FlagInit /\ [][FlagNext]_vars

-----------------------------------------------------------------------------
(* The property factories applied to the configurations the program writes *)

Factories == {"Property.kind", "Property"}

\* the descriptor a factory call evaluates to
apply_factory(call) ==
    IF call.factory = "Property.kind" THEN Property(call.cfg)
                                      ELSE Property_function(call.cfg)

\* the explicit bounds and defaults of the factory calls, all whole numbers
DeclMins == {0 - 2 * Scale, Scale}
DeclMaxs == {0 - Scale, 3 * Scale}
DeclDefaults == {0 - Scale, 2 * Scale}

\* the numeric factory calls of the program: the explicit bounds lie within the
\* range of the kind, in order, with the explicit default between them
FactoryCalls ==
    { call \in [factory : Factories,
                cfg : [kind : NumericKinds, flags : {Undefined},
                       min : Opt(DeclMins), max : Opt(DeclMaxs),
                       default : Opt(DeclDefaults)]] :
        LET cfg == call.cfg
            lo == Nullish(cfg.min, num_sizes_and_spec(cfg.kind).min)
            hi == Nullish(cfg.max, num_sizes_and_spec(cfg.kind).max)
        IN  /\ num_sizes_and_spec(cfg.kind).min <= lo
            /\ lo <= hi
            /\ hi <= num_sizes_and_spec(cfg.kind).max
            /\ cfg.default # Undefined => lo <= cfg.default[1] /\ cfg.default[1] <= hi }

\* the class declares the property either through a factory call in the from()
\* descriptor or through manual_properties alone, and an accessor pair for it
DeclInit ==
    /\ factory_call \in Opt(FactoryCalls)
    /\ config \in { c \in [descriptor : Opt({apply_factory(call) : call \in FactoryCalls}),
                           manual : Opt(ManualSpecs),
                           accessor : {"pair"}] :
                      /\ (c.descriptor = Undefined) = (factory_call = Undefined)
                      /\ (c.manual = Undefined) = (factory_call # Undefined)
                      /\ factory_call # Undefined =>
                             c.descriptor = Some(apply_factory(factory_call[1])) }
    /\ registered = Undefined
    /\ inst = NoInstance
    /\ last_op = NoOp
    /\ DebIdle
    /\ AsyncIdle
    /\ ClassIdle
    /\ LifeIdle
    /\ NotifyIdle

DeclNext ==
    \/ GClass
    \/ \E arg \in Opt(ConstructArgs) : Construct(arg)
    \/ \E v \in Values : AccessorSet(v)
    \/ AccessorGet

SpecDecl == DeclInit /\ [][DeclNext]_vars

DebNext ==
    \/ \E s \in Slots, args \in ArgVals, throws \in BOOLEAN : debounced(s, args, throws)
    \/ \E src \in sources, throws \in BOOLEAN : timeout_callback(src, throws)
    \/ Tick

SpecDebounce == DebInit /\ [][DebNext]_vars

-----------------------------------------------------------------------------
(* The specification of Debounce over several decorated methods and instances *)

\* the parameters of Debounce belong to the decorated method, whatever the
\* instance; the two methods are debounced with the same interval
SlotsInit ==
    /\ now = 0
    /\ deb_cfg \in { f \in [AllSlots -> [trigger : Triggers,
                                        milliseconds : 1..MaxMilliseconds]] :
                       \A s, o \in AllSlots :
                          /\ s.method = o.method => f[s] = f[o]
                          /\ f[s].milliseconds = f[o].milliseconds }
    /\ deb = [k \in FieldKeys(AllSlots) |-> FreshSlot]
    /\ sources = {}
    /\ calls = [s \in AllSlots |-> <<>>]
    /\ invocations = [s \in AllSlots |-> <<>>]
    /\ PropIdle
    /\ AsyncIdle
    /\ ClassIdle
    /\ LifeIdle
    /\ NotifyIdle
    /\ DeclIdle

SlotsNext ==
    \/ \E s \in AllSlots, args \in ArgVals, throws \in BOOLEAN :
          /\ CallsOf(AllSlots) < MaxSlotCalls
          /\ debounced(s, args, throws)
    \/ \E src \in sources, throws \in BOOLEAN : timeout_callback(src, throws)
    \* the clock is followed only while a timer is pending
    \/ sources # {} /\ Tick

SpecSlots == SlotsInit /\ [][SlotsNext]_vars

AsyncNext ==
    \/ \E b \in Bridges, rs \in Signals, rj \in Opt(Signals \cup {""}) :
          connect_async(b, rs, rj)
    \/ \E sig \in Signals, args \in EmitArgs : emit(sig, args)

AsyncInit ==
    /\ AsyncIdle
    /\ PropIdle
    /\ DebIdle
    /\ ClassIdle
    /\ LifeIdle
    /\ NotifyIdle
    /\ DeclIdle

SpecAsync == AsyncInit /\ [][AsyncNext]_vars

-----------------------------------------------------------------------------
(* The specification of registration over several classes *)

ClassNext ==
    \/ \E b \in BaseNames, d \in Descriptors : from(b, Platform, d)
    \/ \E c \in ClassNames : \E parent \in AllClasses \ {c} : class_extends(c, parent)
    \/ \E c \in ClassNames, n \in SignalNames, props \in Opt(SignalProps) :
          Signal(c, n, props)
    \/ \E c \in ClassNames, o \in ClassOptions : GClass_decorator(c, o)

ClassInit ==
    /\ ClassIdle
    /\ LifeIdle
    /\ NotifyIdle
    /\ DeclIdle
    /\ PropIdle
    /\ DebIdle
    /\ AsyncIdle

SpecClass == ClassInit /\ [][ClassNext]_vars

\* registration of classes whose descriptors and options carry the members'
\* names and types
TemplateNext ==
    \/ \E b \in BaseNames, d \in TemplateDescriptors : from(b, Platform, d)
    \/ \E c \in ClassNames : \E parent \in AllClasses \ {c} : class_extends(c, parent)
    \/ \E c \in ClassNames, o \in TemplateOptions : GClass_decorator(c, o)

SpecTemplate == ClassInit /\ [][TemplateNext]_vars

-----------------------------------------------------------------------------
(* The specification of instances of decorated classes *)

LifeInit ==
    /\ life_cfg \in LifeConfigs
    /\ objects = <<>>
    /\ idle_sources = <<>>
    /\ promises = {}
    /\ printed = {}
    /\ uncaught = {}
    /\ PropIdle
    /\ DebIdle
    /\ AsyncIdle
    /\ ClassIdle
    /\ NotifyIdle
    /\ DeclIdle

LifeNext ==
    \/ \E class \in ClassNames : construct(class)
    \/ \E outcome \in ReadyOutcomes : idle_callback(outcome)
    \/ \E pr \in promises : promise_rejects(pr)

SpecLife == LifeInit /\ [][LifeNext]_vars

\* instances of a chain of two classes that may both carry template metadata
ChainInit ==
    /\ life_cfg \in ChainConfigs
    /\ objects = <<>>
    /\ idle_sources = <<>>
    /\ promises = {}
    /\ printed = {}
    /\ uncaught = {}
    /\ PropIdle
    /\ DebIdle
    /\ AsyncIdle
    /\ ClassIdle
    /\ NotifyIdle
    /\ DeclIdle

SpecChain == ChainInit /\ [][LifeNext]_vars

-----------------------------------------------------------------------------
(* The specification of Notify *)

NotifyInit ==
    /\ ntf_cfg \in [name : SetterNames, wrapped : BOOLEAN]
    /\ ntf_events = <<>>
    /\ ntf_result = [status |-> "none", error |-> Undefined]
    /\ PropIdle
    /\ DebIdle
    /\ AsyncIdle
    /\ ClassIdle
    /\ LifeIdle
    /\ DeclIdle

NotifyNext == \E arg0 \in WrittenValues, throws \in BOOLEAN : assign(arg0, throws)

SpecNotify == NotifyInit /\ [][NotifyNext]_vars

-----------------------------------------------------------------------------
(* Claims about the validating accessor *)

\* the installed accessor is the numeric one, with a non-empty range
NumericAccessor ==
    /\ inst.accessor # Undefined
    /\ inst.accessor[1].numeric
    /\ inst.accessor[1].min <= inst.accessor[1].max

\* clamp v into [lo, hi]
ClampInto(v, lo, hi) == IF v < lo THEN lo ELSE IF v > hi THEN hi ELSE v

IntegerGTypes == {"TYPE_INT", "TYPE_UINT"}

C2_StoredWithinRange ==
    (last_op.op = "set" /\ NumericAccessor) =>
        /\ inst.accessor[1].min <= inst.stored[1]
        /\ inst.stored[1] <= inst.accessor[1].max

\* C3: a value supplied in the constructor arguments is stored, once construction
\* has completed, as the validating setter would have stored it.
C3_ConstructValidated ==
    (last_op.op = "construct" /\ inst.phase = "constructed" /\ NumericAccessor
       /\ last_op.v # Undefined) =>
        inst.stored = Some(set(inst.accessor[1], last_op.v[1]))

-----------------------------------------------------------------------------
(* Claims about flags, CONSTANT properties and manual properties *)

\* the property is the one the from() descriptor declares, not overridden
DescriptorOnly == config.descriptor # Undefined /\ config.manual = Undefined

\* what instance.p evaluates to now
ReadNow == IF inst.accessor # Undefined THEN get(registered[1], inst.stored)
                                        ELSE desc_get(registered[1], inst.stored)

FlagTable(flag_string) ==
    CASE flag_string = "CONSTANT" -> {"READABLE"}
      [] flag_string = "READWRITE" -> {"READABLE", "WRITABLE"}
      [] flag_string = "CONSTRUCT" -> {"READABLE", "WRITABLE", "CONSTRUCT"}
      [] flag_string = "CONSTRUCT_ONLY" -> {"READABLE", "WRITABLE", "CONSTRUCT_ONLY"}

\* C14: for every property factory and every flag value (an omitted flag being
\* READWRITE) the spec built by create() carries exactly the flags of the table,
\* and GClass defines the instance accessor exactly for READWRITE and CONSTRUCT,
\* the default getter on the prototype exactly for CONSTANT, and neither for
\* CONSTRUCT_ONLY.
C14_FlagMapping ==
    /\ \A p \in FlagConfigs :
          create(Property(p)).flags = FlagTable(Nullish(p.flags, "READWRITE"))
    /\ (DescriptorOnly /\ registered # Undefined) =>
          LET flag_string == config.descriptor[1].flags
          IN  /\ registered[1].properties[1].flags = FlagTable(flag_string)
              /\ registered[1].proto_accessor.get = "const" <=> flag_string = "CONSTANT"
              /\ inst.phase = "constructed" =>
                    (inst.accessor # Undefined
                       <=> flag_string \in {"READWRITE", "CONSTRUCT"})
              /\ inst.phase = "failed" => flag_string \in {"READWRITE", "CONSTRUCT"}

\* an instance of a class with a CONSTRUCT_ONLY property of a non-numeric factory
\* was constructed with a value and has no accessor of its own
C14_Witness ==
    /\ DescriptorOnly
    /\ config.descriptor[1].kind = "jsobject"
    /\ config.descriptor[1].flags = "CONSTRUCT_ONLY"
    /\ inst.phase = "constructed"
    /\ inst.stored # Undefined
    /\ inst.accessor = Undefined

\* the name is declared both in the from() descriptor and in manual_properties
Collision == config.descriptor # Undefined /\ config.manual # Undefined

\* C19: on a collision the manual spec is the one submitted to registration, and
\* its flags and bounds govern writes and reads on instances: a write stores the
\* value clamped to the manual spec's range, a read returns the stored value.
C19_ManualWins ==
    (Collision /\ registered # Undefined) =>
        /\ registered[1].properties = config.manual
        /\ (inst.phase = "constructed" /\ inst.accessor # Undefined
              /\ inst.accessor[1].numeric) =>
              /\ inst.accessor[1].min = config.manual[1].minimum[1]
              /\ inst.accessor[1].max = config.manual[1].maximum[1]
        /\ (last_op.op = "get" /\ inst.stored # Undefined) => last_op.out = inst.stored

-----------------------------------------------------------------------------
(* Claims about registration over several classes *)

Registered(c) == registry[c] # Undefined

\* the signal names declared with Signal on class c so far
DeclaredOn(c) == { l.name : l \in { e \in signal_log : e.target = c } }

\* C11: immediately after GClass registers a class the signal side table holds
\* no entry for it, and the signal table submitted for a class contains only
\* signals declared with Signal on that class, never those of another class.
C11_SignalsPerClass ==
    /\ [](\A c \in ClassNames : Registered(c) =>
             { e.name : e \in registry[c][1].Signals } \subseteq DeclaredOn(c))
    /\ [][\A c \in ClassNames :
             (~Registered(c) /\ registry'[c] # Undefined) =>
                 /\ signals_map'[c] = Undefined
                 /\ { e.name : e \in registry'[c][1].Signals } = DeclaredOn(c)]_vars

\* two classes were registered, each with a signal the other did not declare,
\* and the side table is empty
C11_Witness ==
    /\ Registered("A") /\ Registered("B")
    /\ { e.name : e \in registry["A"][1].Signals } = {"clicked"}
    /\ { e.name : e \in registry["B"][1].Signals } = {"toggled"}
    /\ \A c \in AllClasses : signals_map[c] = Undefined

\* C17: the template metadata from() attached to a base is consumed once: after
\* the first subclass has been registered a sibling subclass registered later
\* finds no template metadata.
C17_MetadataConsumedOnce ==
    \A b \in BaseNames :
        Cardinality({ c \in ClassNames :
                        /\ Registered(c)
                        /\ registry[c][1].parent = b
                        /\ registry[c][1].is_base_metadata }) <= 1

-----------------------------------------------------------------------------
(* Claims about instances of decorated classes *)

Count(q, Test(_)) == Cardinality({ i \in 1..Len(q) : Test(q[i]) })

\* the calls of hooks, over all instances, that the wrapper of class c scheduled
\* and that threw
ThrownCalls(c) ==
    UNION { { <<id, k>> : k \in { j \in 1..Len(objects[id].ready_calls) :
                                    /\ objects[id].ready_calls[j].target = c
                                    /\ objects[id].ready_calls[j].outcome = "throws" } } :
            id \in 1..Len(objects) }

\* the idle sources still pending for the instance id
Pending(id) == Count(idle_sources, LAMBDA src : src.obj = id)

\* the class A declares a writable, non-construct-only property
WritableDeclared == life_cfg.flags \in {Some("READWRITE"), Some("CONSTRUCT")}

\* C13: constructing an instance throws an error naming the class and the
\* property exactly when the class has a writable, non-construct-only property
\* without an accessor pair; CONSTANT and CONSTRUCT_ONLY properties never
\* trigger it, and a class whose writable properties all have accessor pairs
\* constructs without it.
C13_AccessorContract ==
    \A id \in 1..Len(objects) :
        LET o == objects[id]
        IN  /\ o.phase = "failed" <=> (WritableDeclared /\ life_cfg.accessor # "pair")
            /\ o.phase = "failed" =>
                  {PropKey, "A"} \subseteq { o.error[k] : k \in 1..Len(o.error) }

\* C15: the _ready hook of an instance's class, own or inherited, is invoked
\* exactly once for the instance, from an idle source after construction has
\* returned; never a second time, and never for a class without a hook.
C15_ReadyOnce ==
    \A id \in 1..Len(objects) :
        LET o == objects[id]
        IN  o.phase = "constructed" =>
              IF ready_method(o.class, life_cfg) = Undefined
              THEN o.ready_calls = <<>> /\ Pending(id) = 0
              ELSE /\ Len(o.ready_calls) <= 1
                   /\ Len(o.ready_calls) + Pending(id) = 1

\* C16: a hook that throws, or whose deferred result rejects, is caught and
\* logged with the class name; nothing reaches the main loop, the idle source is
\* removed all the same, and the sources of other instances stay scheduled.
C16_ReadyFailuresContained ==
    /\ uncaught = {}
    /\ \A c \in ClassNames :
          Cardinality({ e \in printed : e.class = c })
            = Cardinality(ThrownCalls(c))
              + Cardinality({ pr \in promises : pr.target = c /\ pr.state = "rejected" })
    /\ \A e \in printed : e.class \in ClassNames
    /\ \A id \in 1..Len(objects) :
          Len(objects[id].ready_calls) + Pending(id) = Len(objects[id].scheduled)

\* the hook of the first instance threw and was logged, a deferred result was
\* rejected and logged, and the hook of the second instance ran afterwards
C16_Witness ==
    /\ Len(objects) = 2
    /\ objects[1].ready_calls # <<>>
    /\ objects[1].ready_calls[1].outcome = "throws"
    /\ objects[2].ready_calls # <<>>
    /\ \E pr \in promises : pr.state = "rejected"
    /\ Cardinality(printed) >= 2
    /\ idle_sources = <<>>

\* the actions the descriptor declares, as constructed: { name, ...args }
AllActions ==
    { [name |-> n, args |-> TemplateActions[n].args] : n \in DOMAIN TemplateActions }

\* C18: the action container is chosen by the instance's capability: the
\* application itself with accelerators registered application-wide, the
\* application window itself without accelerators, the private action group of
\* any other widget, and nothing at all for other objects; every action is
\* constructed with its member name and bound under that name.
C18_ActionContainer ==
    \A id \in 1..Len(objects) :
        LET o == objects[id]
        IN  (o.phase = "constructed" /\ life_cfg.has_metadata) =>
              CASE life_cfg.capability = "application" ->
                     /\ o.container = Some("this")
                     /\ o.added = AllActions
                     /\ o.bound = DOMAIN TemplateActions
                     /\ o.accels = { [detailed_action_name |-> <<"app.", n>>,
                                      accels |-> TemplateActions[n].accels] :
                                      n \in DOMAIN TemplateActions }
                [] life_cfg.capability = "window" ->
                     /\ o.container = Some("this")
                     /\ o.added = AllActions
                     /\ o.bound = DOMAIN TemplateActions
                     /\ o.accels = {}
                [] life_cfg.capability = "widget" ->
                     /\ o.container = Some("group")
                     /\ o.group_name # Undefined
                     /\ o.added = AllActions
                     /\ o.bound = DOMAIN TemplateActions
                     /\ o.accels = {}
                [] life_cfg.capability = "object" ->
                     /\ o.container = Undefined
                     /\ o.added = {}
                     /\ o.bound = {}
                     /\ o.accels = {}

\* an application window with template actions was constructed: the actions are
\* on the window and no accelerator was set
C18_Witness ==
    /\ life_cfg.has_metadata
    /\ life_cfg.capability = "window"
    /\ Len(objects) >= 1
    /\ objects[1].phase = "constructed"
    /\ objects[1].added = AllActions
    /\ objects[1].accels = {}

-----------------------------------------------------------------------------
(* Claims about Notify *)

\* name with every underscore turned into a hyphen and nothing else changed
Hyphenated(name, canonical) ==
    /\ Len(canonical) = Len(name)
    /\ \A i \in 1..Len(name) :
          canonical[i] = (IF name[i] = "_" THEN "-" ELSE name[i])

\* C20: a setter wrapped by Notify delegates to the original setter with the
\* written value and then emits exactly one notification named after the setter
\* with every underscore replaced by a hyphen; never before the setter has run;
\* when the setter throws, the exception reaches the caller unchanged and no
\* notification is emitted.
C20_NotifyAfterSetter ==
    ntf_cfg.wrapped =>
        /\ \A k \in 1..Len(ntf_events) :
              LET e == ntf_events[k]
              IN  /\ (e.kind = "setter" /\ ~e.threw) =>
                        /\ k < Len(ntf_events)
                        /\ ntf_events[k + 1].kind = "notify"
                  /\ (e.kind = "setter" /\ e.threw) =>
                        (k = Len(ntf_events) \/ ntf_events[k + 1].kind = "setter")
                  /\ e.kind = "notify" =>
                        /\ k > 1
                        /\ ntf_events[k - 1].kind = "setter"
                        /\ ~ntf_events[k - 1].threw
                        /\ Hyphenated(ntf_cfg.name, e.name)
        /\ ntf_result.status = "threw" =>
              /\ ntf_events[Len(ntf_events)].kind = "setter"
              /\ ntf_result.error = Some(<<"error of", ntf_events[Len(ntf_events)].arg>>)
        /\ ntf_result.status = "returned" =>
              ntf_events[Len(ntf_events)].kind = "notify"

\* a setter whose name has two underscores notified once and then threw
C20_Witness ==
    /\ ntf_cfg.wrapped
    /\ ntf_cfg.name = <<"a", "_", "b", "_", "c">>
    /\ Len(ntf_events) = 3
    /\ ntf_events[2].kind = "notify"
    /\ ntf_events[2].name = <<"a", "-", "b", "-", "c">>
    /\ ntf_result.status = "threw"

-----------------------------------------------------------------------------
(* Claims about Debounce *)

\* the k-th smallest member of the set of indices E
KthOf(E, k) == CHOOSE i \in E : Cardinality({ j \in E : j <= i }) = k

\* a timeout source of slot s is alive
TimerLive(s) == \E src \in sources : src.slot = s

\* call i of slot s is the last one of its burst: no call follows it within the interval
BurstEnd(s, i) ==
    \/ i = Len(calls[s])
    \/ calls[s][i + 1].t - calls[s][i].t >= deb_cfg[s].milliseconds

\* the timer that call i of slot s scheduled is no longer pending
TimerOver(s, i) == ~(i = Len(calls[s]) /\ TimerLive(s))

\* the invocations of slot s are exactly those expected of the calls in E, in order:
\* AtCall(i) tells whether call i is answered at call time or one interval later
InvocationsAre(s, E, AtCall(_)) ==
    /\ Len(invocations[s]) = Cardinality(E)
    /\ \A k \in 1..Len(invocations[s]) :
          LET i == KthOf(E, k)
              inv == invocations[s][k]
          IN  /\ inv.args = calls[s][i].args
              /\ AtCall(i) => inv.at = "call" /\ inv.t = calls[s][i].t
              /\ ~AtCall(i) => /\ inv.at = "timer"
                               /\ inv.t = calls[s][i].t + deb_cfg[s].milliseconds

\* C4: in trailing mode every burst of calls, each less than the interval after the
\* previous one, makes exactly one invocation, one interval after the last call of
\* the burst and with that call's arguments; nothing is invoked at call time.
C4_TrailingBurstOnce ==
    \A s \in Slots :
        deb_cfg[s].trigger = "trailing" =>
            InvocationsAre(s, { i \in 1..Len(calls[s]) : BurstEnd(s, i) /\ TimerOver(s, i) },
                           LAMBDA i : FALSE)

\* a burst of three calls has ended in an invocation
C4_Witness ==
    \E s \in Slots :
        /\ deb_cfg[s].trigger = "trailing"
        /\ Len(calls[s]) = 3
        /\ ~BurstEnd(s, 1) /\ ~BurstEnd(s, 2)
        /\ calls[s][3].args # calls[s][1].args
        /\ Len(invocations[s]) = 1

\* C5: in leading+trailing mode a call made while no timer is scheduled is invoked
\* at once with its own arguments; further calls before the timer fires yield exactly
\* one more invocation, at the fire, with the latest arguments; a timer that saw no
\* further call invokes nothing.
C5_LeadingTrailing ==
    \A s \in Slots :
        deb_cfg[s].trigger = "leading+trailing" =>
            InvocationsAre(s,
                { i \in 1..Len(calls[s]) :
                    \/ ~calls[s][i].timer_live
                    \/ /\ calls[s][i].timer_live
                       /\ i = Len(calls[s]) \/ ~calls[s][i + 1].timer_live
                       /\ TimerOver(s, i) },
                LAMBDA i : ~calls[s][i].timer_live)

\* C6: in every mode two consecutive invocations of the wrapped method are at least
\* `milliseconds` apart.  Stated for the runs in which the wrapped method never
\* throws, where it already fails.
C6_RateLimited ==
    \A s \in Slots :
        (\A k \in 1..Len(invocations[s]) : ~invocations[s][k].threw) =>
            \A k \in 1..(Len(invocations[s]) - 1) :
                invocations[s][k + 1].t - invocations[s][k].t >= deb_cfg[s].milliseconds

\* C7: in leading mode a call made while no timer is scheduled is invoked at once
\* with its own arguments, and a call made while a timer is scheduled causes no
\* invocation, neither at call time nor when the timer fires.
C7_LeadingOnly ==
    \A s \in Slots :
        deb_cfg[s].trigger = "leading" =>
            InvocationsAre(s, { i \in 1..Len(calls[s]) : ~calls[s][i].timer_live },
                           LAMBDA i : TRUE)

\* a call was swallowed while the timer was pending, the timer has fired since, and
\* the next call was invoked again
C7_Witness ==
    \E s \in Slots :
        /\ deb_cfg[s].trigger = "leading"
        /\ Len(calls[s]) = 3
        /\ calls[s][2].timer_live
        /\ ~calls[s][3].timer_live
        /\ Len(invocations[s]) = 2
        /\ ~invocations[s][1].threw

-----------------------------------------------------------------------------
(* Claims about connect_async *)

Range(seq) == { seq[i] : i \in 1..Len(seq) }

\* bridge b was given a reject signal that the executor connects
HasReject(b) ==
    bridges[b].reject_signal # Undefined /\ bridges[b].reject_signal # Some("")

\* the index of the first emission after the call of bridge b whose signal is in S;
\* 0 when there is none
FirstOf(b, S) ==
    LET I == { i \in (bridges[b].since + 1)..Len(emits) : emits[i].signal \in S }
    IN  IF I = {} THEN 0 ELSE CHOOSE i \in I : \A j \in I : i <= j

\* the handlers of bridge b still connected to the object
Connected(b) == { i \in 1..Len(handlers) : handlers[i].bridge = b }

\* C8: connect_async(obj, resolve_event) resolves with exactly the arguments of the
\* first emission of resolve_event after the call, the emitting object excluded;
\* later emissions neither run the handler again nor change the resolved value.
C8_ResolvesWithFirstEmission ==
    \A b \in Bridges :
        bridges[b].called =>
            LET i == FirstOf(b, {bridges[b].resolve_signal})
            IN  /\ bridges[b].handler_runs <= 1
                /\ bridges[b].status = "fulfilled" =>
                      i # 0 /\ bridges[b].value = emits[i].args
                /\ (~HasReject(b) /\ i # 0) => bridges[b].status = "fulfilled"
                /\ (~HasReject(b) /\ i = 0) => bridges[b].status = "pending"

\* a bridge without reject event was resolved by one emission and has seen a second
\* emission of the resolve event with other arguments
C8_Witness ==
    \E b \in Bridges :
        /\ bridges[b].called /\ ~HasReject(b)
        /\ bridges[b].status = "fulfilled"
        /\ \E i, j \in (bridges[b].since + 1)..Len(emits) :
              /\ i < j
              /\ emits[i].signal = bridges[b].resolve_signal
              /\ emits[j].signal = bridges[b].resolve_signal
              /\ emits[i].args # emits[j].args

\* C9: when the reject event is emitted before the resolve event the promise rejects
\* with an error whose message contains the reject event's name and the emitted
\* arguments, and the resolve handler is already disconnected when the rejection is
\* issued, so a later resolve emission cannot resolve it.
C9_RejectsFirst ==
    \A b \in Bridges :
        (bridges[b].called /\ HasReject(b)
           /\ bridges[b].reject_signal[1] # bridges[b].resolve_signal) =>
            LET i == FirstOf(b, {bridges[b].resolve_signal, bridges[b].reject_signal[1]})
            IN  (i # 0 /\ emits[i].signal = bridges[b].reject_signal[1]) =>
                    /\ bridges[b].status = "rejected"
                    /\ bridges[b].reject_signal[1] \in Range(bridges[b].value)
                    /\ Range(emits[i].args) \subseteq Range(bridges[b].value)
                    /\ "resolve" \notin bridges[b].live_at_settle
                    /\ \A k \in Connected(b) : handlers[k].role # "resolve"

\* a bridge was rejected and the resolve event was emitted afterwards
C9_Witness ==
    \E b \in Bridges :
        /\ bridges[b].called /\ HasReject(b)
        /\ bridges[b].status = "rejected"
        /\ \E i, j \in (bridges[b].since + 1)..Len(emits) :
              /\ i < j
              /\ emits[i].signal = bridges[b].reject_signal[1]
              /\ emits[j].signal = bridges[b].resolve_signal

\* C10: whatever is emitted, the promise of a bridge is settled at most once, and
\* from the moment it is settled no handler of the bridge is connected to the
\* object, with and without a reject event.
C10_SettlesOnceNoLeak ==
    \A b \in Bridges :
        /\ bridges[b].settle_calls <= 1
        /\ bridges[b].status # "pending" =>
              /\ bridges[b].live_at_settle = {}
              /\ Connected(b) = {}

\* one bridge with a reject event and one without have both settled, and the object
\* has emitted again since
C10_Witness ==
    \E b, c \in Bridges :
        /\ HasReject(b) /\ bridges[b].status # "pending"
        /\ bridges[c].called /\ ~HasReject(c) /\ bridges[c].status # "pending"
        /\ Len(emits) = MaxEmits
        /\ FirstOf(b, Signals) < MaxEmits
        /\ FirstOf(c, {bridges[c].resolve_signal}) < MaxEmits

-----------------------------------------------------------------------------
(* Claims about the property factories *)

\* the property comes from a call of this factory
DeclaredWith(factory) ==
    factory_call # Undefined /\ factory_call[1].factory = factory

\* C21: Property.int32 / uint32 / double resolve the default to the explicit
\* default when one is given, and otherwise to 0 when min <= 0 <= max, to min
\* when the whole range is positive and to max when the whole range is negative.
C21_DefaultResolution ==
    DeclaredWith("Property.kind") =>
        LET cfg == factory_call[1].cfg
            descriptor == config.descriptor[1]
            min == descriptor.min[1]
            max == descriptor.max[1]
            nearest == IF min <= 0 /\ 0 <= max THEN 0
                       ELSE IF min > 0 THEN min
                       ELSE max
            resolved == Nullish(cfg.default, nearest)
        IN  /\ create(descriptor).default_value = Some(resolved)
            /\ registered # Undefined =>
                   registered[1].properties[1].default_value = Some(resolved)

\* the fixed range of each numeric kind
RangeTable(value_type) ==
    CASE value_type = "TYPE_INT" -> [min |-> MININT32, max |-> MAXINT32]
      [] value_type = "TYPE_UINT" -> [min |-> 0, max |-> MAXUINT32]
      [] value_type = "TYPE_DOUBLE" -> [min |-> 0 - MAX_VALUE, max |-> MAX_VALUE]

\* the property is numeric and declared only through manual_properties
ManualOnly == factory_call = Undefined /\ config.manual # Undefined

\* C22: writes to a numeric property are clamped to the explicit min / max when
\* given and otherwise to the range of the kind (int32: [MININT32, MAXINT32],
\* uint32: [0, MAXUINT32], double: the widest range, so 0 and negative values
\* are stored unchanged), for properties of a from() descriptor, whose min and
\* max are populated exactly for the numeric kinds, and for numeric properties
\* declared only through manual_properties.
C22_ClampBounds ==
    /\ \A p \in FlagConfigs :
          /\ (Property(p).min # Undefined) = (p.kind \in NumericKinds)
          /\ (Property(p).max # Undefined) = (p.kind \in NumericKinds)
    /\ ((DeclaredWith("Property.kind") \/ ManualOnly) /\ inst.accessor # Undefined) =>
          LET explicit == IF ManualOnly THEN [min |-> Undefined, max |-> Undefined]
                                        ELSE factory_call[1].cfg
              value_type == registered[1].properties[1].value_type
              lo == Nullish(explicit.min, RangeTable(value_type).min)
              hi == Nullish(explicit.max, RangeTable(value_type).max)
              acc == inst.accessor[1]
          IN  /\ acc.numeric
              /\ acc.min = lo
              /\ acc.max = hi
              /\ last_op.op = "set" =>
                    LET clamped == ClampInto(last_op.v[1], lo, hi)
                    IN  inst.stored = Some(IF value_type = "TYPE_DOUBLE"
                                           THEN clamped ELSE Trunc(clamped))

\* the bounds the documentation of Property(type, config) gives for a kind;
\* for the lower bound of double the claim states none
DocumentedMin(kind) == IF kind = "int32" THEN MININT32 ELSE 0
DocumentedMax(kind) ==
    CASE kind = "int32" -> MAXINT32
      [] kind = "uint32" -> MAXUINT32
      [] kind = "double" -> MAX_VALUE

\* C30: Property(type, config) resolves omitted bounds as documented (min:
\* MININT32 for int32, 0 for uint32; max: MAXINT32, MAXUINT32, Number.MAX_VALUE),
\* the descriptor's min / max equal the bounds of the spec create() builds, a
\* default int32 property stores every whole value from MININT32 up to 0
\* unchanged and its spec maximum does not exceed MAXINT32.
C30_LegacyBounds ==
    DeclaredWith("Property") =>
        LET cfg == factory_call[1].cfg
            descriptor == config.descriptor[1]
            spec == create(descriptor)
        IN  /\ cfg.kind # "double" =>
                   descriptor.min = Some(Nullish(cfg.min, DocumentedMin(cfg.kind)))
            /\ descriptor.max = Some(Nullish(cfg.max, DocumentedMax(cfg.kind)))
            /\ spec.minimum = descriptor.min
            /\ spec.maximum = descriptor.max
            /\ cfg.kind = "int32" => spec.maximum[1] <= MAXINT32
            /\ (/\ cfg.kind = "int32"
                /\ cfg.min = Undefined
                /\ cfg.max = Undefined
                /\ last_op.op = "set"
                /\ last_op.v[1] \in MININT32..0
                /\ last_op.v[1] % Scale = 0) => inst.stored = last_op.v

-----------------------------------------------------------------------------
(* Claims about the state Debounce keeps *)

\* the timeout sources scheduled for slot s in the set srcs
TimersOf(srcs, s) == { src \in srcs : src.slot = s }

\* C23: a call of one debounced method on an instance leaves the pending timer,
\* the stashed arguments and the trailing-pending flag of every other debounced
\* method on that instance, and of the same method on another instance, as they
\* were, and causes no invocation of them.
C23_SlotsIndependent ==
    [][\A s \in DOMAIN calls :
          calls'[s] # calls[s] =>
              \A o \in (DOMAIN calls) \ {s} :
                  /\ deb'[field_key(o)] = deb[field_key(o)]
                  /\ TimersOf(sources', o) = TimersOf(sources, o)
                  /\ invocations'[o] = invocations[o]
                  /\ calls'[o] = calls[o]]_vars

\* two decorated methods of the same name on one instance each have their own
\* pending timer and their own stashed arguments
C23_Witness ==
    \E s, o \in DOMAIN calls :
        /\ s # o
        /\ s.instance = o.instance
        /\ s.method.name = o.method.name
        /\ deb_cfg[s].milliseconds = deb_cfg[o].milliseconds
        /\ TimersOf(sources, s) # {} /\ TimersOf(sources, o) # {}
        /\ deb[field_key(s)].should_call_trailing
        /\ deb[field_key(o)].should_call_trailing
        /\ deb[field_key(s)].last_args # deb[field_key(o)].last_args

\* C24: a slot never has more than one timer scheduled, in any trigger mode: the
\* timer that is scheduled is the one the slot remembers, every earlier one was
\* cancelled by the call that replaced it.
C24_OneTimerPerSlot ==
    \A s \in DOMAIN calls :
        /\ Cardinality(TimersOf(sources, s)) <= 1
        /\ \A src \in TimersOf(sources, s) :
              deb[field_key(s)].timeout = Some(src.id)

\* a burst of three calls: the second and the third each replaced a pending
\* timer, and one timer is scheduled
C24_Witness ==
    \E s \in DOMAIN calls :
        /\ Len(calls[s]) = 3
        /\ calls[s][2].timer_live
        /\ calls[s][3].timer_live
        /\ Cardinality(TimersOf(sources, s)) = 1

\* C25: when the timer callback of a slot has run the slot has no timer
\* scheduled and, in the modes that include trailing, its trailing-pending flag
\* is clear, also when the wrapped method threw in the trailing invocation.
C25_CallbackClearsSlot ==
    [][\A s \in DOMAIN calls :
          (calls' = calls /\ TimersOf(sources', s) # TimersOf(sources, s)) =>
              /\ deb'[field_key(s)].timeout = Undefined
              /\ TimersOf(sources', s) = {}
              /\ trailing(deb_cfg[s].trigger) =>
                     ~deb'[field_key(s)].should_call_trailing]_vars

-----------------------------------------------------------------------------
(* Claims about the private action group *)

\* the classes on the chain of class c that were decorated with template
\* metadata
WithMetadata(c) ==
    { t \in (IF c = "B" THEN {"A", "B"} ELSE {"A"}) : is_base_metadata(t, life_cfg) }

\* C26: a widget has at most one private action group: it is created only if
\* the instance has none, every initializer on the chain of the instance's class
\* finds the same one, adds its actions to it and inserts it under the name of
\* its own class.
C26_OneActionGroup ==
    \A id \in 1..Len(objects) :
        LET o == objects[id]
        IN  o.phase = "constructed" =>
              /\ Cardinality(o.groups) <= 1
              /\ o.action_group = Undefined => o.groups = {}
              /\ o.action_group # Undefined => o.groups = {o.action_group[1]}
              /\ IF life_cfg.capability = "widget"
                 THEN /\ { e.name : e \in o.inserted } = WithMetadata(o.class)
                      /\ \A e \in o.inserted : e.group = o.action_group[1]
                      /\ \A e \in o.group_added : e.group = o.action_group[1]
                      /\ { e.name : e \in o.group_added } =
                            UNION { DOMAIN actions_of(t, life_cfg) :
                                      t \in WithMetadata(o.class) }
                 ELSE o.groups = {} /\ o.inserted = {} /\ o.group_added = {}

\* a widget of the derived class was initialised by two initializers with
\* template metadata: one group, inserted under both class names
C26_Witness ==
    /\ life_cfg.capability = "widget"
    /\ \E id \in 1..Len(objects) :
          /\ objects[id].class = "B"
          /\ Cardinality(objects[id].groups) = 1
          /\ { e.name : e \in objects[id].inserted } = {"A", "B"}
          /\ { e.name : e \in objects[id].group_added } = {"quit", "about", "open"}

-----------------------------------------------------------------------------
(* Claims about the members GClass registers *)

\* name without its leading separator, when it has one
StripLeading(name) ==
    IF name # <<>> /\ Head(name) = "_" THEN Tail(name) ELSE name

\* C27: the child names submitted to registration are the declared child field
\* names, those of the from() descriptor and those of manual_internal_children,
\* each with only its single leading '_' removed and every other character kept,
\* whether or not the name starts with '_'.
C27_ChildNamesStripped ==
    \A c \in ClassNames :
        Registered(c) =>
            LET entry == registry[c][1]
            IN  /\ Len(entry.InternalChildren) = Len(entry.children)
                /\ \A i \in 1..Len(entry.children) :
                      entry.InternalChildren[i] = StripLeading(entry.children[i])

\* the decorator of class c threw
Threw(c) == thrown[c] # Undefined

\* the descriptor entries the decorator of c finds, looking from the parent c
\* has along the chain po
EntriesFound(c, po) ==
    LET maybe_metadata == symbol_lookup(po[c][1], po, metadata)
    IN  IF maybe_metadata = Undefined THEN <<>> ELSE maybe_metadata[1].descriptor

\* the descriptor has a property entry of a type no spec can be built for
Unsupported(entries) ==
    \E i \in 1..Len(entries) :
        entries[i].kind = "property"
        /\ entries[i].type \notin NumericKinds \cup {"string", "bool"}

\* C28: when building a property spec fails while GClass processes the
\* descriptor, the error leaves the decorator and the class is never submitted
\* for registration; the registrations of the other classes, the prototype
\* chains and the signal table are as they were, and later registrations go on.
C28_SpecBuildFailure ==
    /\ [](\A c \in ClassNames : Threw(c) => ~Registered(c))
    /\ [][\A c \in ClassNames :
             (Declared(c) /\ ~Registered(c) /\ Unsupported(EntriesFound(c, parent_of))
                /\ (registry'[c] # registry[c] \/ thrown'[c] # thrown[c])) =>
                 /\ thrown'[c] # Undefined
                 /\ registry' = registry
                 /\ parent_of' = parent_of
                 /\ signals_map' = signals_map
                 /\ metadata' = metadata
                 /\ \A d \in ClassNames \ {c} : thrown'[d] = thrown[d]]_vars

\* the decorator of one class threw on an unsupported property that follows a
\* child in its descriptor, and another class is registered with the child and
\* the property it declares by hand
C28_Witness ==
    \E c, d \in ClassNames :
        /\ c # d
        /\ Threw(c)
        /\ ~Registered(c)
        /\ Len(EntriesFound(c, parent_of)) > 1
        /\ Registered(d)
        /\ registry[d][1].InternalChildren # <<>>
        /\ DOMAIN registry[d][1].Properties # {}

\* the immediate ancestor the class had when it was decorated carries template
\* metadata of its own
OwnMetadata(parent) == metadata[parent] # Undefined

\* C29: GClass uses template metadata only when it is attached to the immediate
\* ancestor of the decorated class.  When the immediate ancestor has none of its
\* own (a platform class, a registered class, a plain subclass of a from() base)
\* the registered members are exactly the manually declared ones, no action is
\* kept for wiring, and the prototype chain of the class is left as it was.
C29_ImmediateAncestorOnly ==
    /\ [](\A c \in ClassNames :
             Registered(c) =>
                 LET entry == registry[c][1]
                 IN  /\ entry.is_base_metadata <=> OwnMetadata(entry.parent)
                     /\ ~OwnMetadata(entry.parent) =>
                           /\ DOMAIN entry.Properties = entry.options.manual_properties
                           /\ entry.children = entry.options.manual_internal_children
                           /\ entry.actions = {})
    /\ [][\A c \in ClassNames :
             (~Registered(c) /\ registry'[c] # Undefined
                /\ ~OwnMetadata(parent_of[c][1])) =>
                 parent_of'[c] = parent_of[c]]_vars

=============================================================================
